---- MODULE Spec2Model ----
(***************************************************************************)
(* Model of the clob-tcp-engine server: the matching engine thread         *)
(* (server/src/engine.rs), its order book (server/src/types.rs) and the    *)
(* TCP connection handler that feeds it (server/src/main.rs).              *)
(*                                                                         *)
(* The engine is one thread.  One step of it is everything it does between *)
(* two points where it can wait: the receive on the command channel and a  *)
(* send on a full bounded channel.  The book is private to that thread     *)
(* (engine.rs:12), so statements about the book are made at the points     *)
(* where the engine is back at the receive.                                *)
(***************************************************************************)
EXTENDS Integers, Sequences, FiniteSets, TLC

\* ------------------------------------------------------------------ bounds
\* Commands the environment hands to the command channel in one run.
MaxCmds == 3
\* Capacity of a connection's event channel (bounded(2048) in main.rs:186),
\* scaled down so that a full channel is reached.
SinkCap == 4
\* Capacity of the broadcast channel (bounded(10_000) in main.rs:174), scaled.
MdCap == 5
\* Capacity of the command channel (bounded(10_000) in main.rs:173), scaled.
CmdCap == 1
\* Frames a client sends on its connection in one run.
MaxFrames == 2
\* The commands submitted in a run of the specification of cancels.
MaxCancelCmds == 4
\* Capacity of the command channel in the specification of the command order
\* (10_000 in main.rs:173).
OrderChanCap == 2

\* ------------------------------------------------------ program constants
MSG_PING == 1
MSG_NEW_ORDER == 10
MSG_CANCEL == 11
\* `8 + 8 + 1 + 8 + 8 + 1`, the least body length of a NewOrder (main.rs:103).
NEW_ORDER_LEN == 34
\* The least body length of a Cancel (main.rs:129).
CANCEL_LEN == 16

\* ------------------------------------------------------------ input sets
Conn == {1, 2}
OrderIds == {1, 2}
Prices == {1, 2}
Qtys == {1, 2}
Sides == {"Bid", "Ask"}
Tifs == {"Gtc", "Ioc"}

VARIABLES
    bids,       \* OrderBook.bids : price -> queue of orders (keys = present levels)
    asks,       \* OrderBook.asks
    lookup,     \* OrderBook.lookup : order id -> <<side, price>>
    cmdq,       \* the command channel (tx_cmd / rx_cmd)
    sinks,      \* per connection: the event channel (tx_evt / rx_evt)
    sinkOpen,   \* per connection: the receiver rx_evt is still alive
    md,         \* the broadcast channel (tx_bcast / _rx_bcast)
    cur,        \* the command the engine received last and what it did with it
    pos,        \* how many sends of cur.out have returned
    nrecv,      \* commands received by the engine so far
    nsub,       \* commands handed to the command channel by the environment
    nid,        \* the largest order id the environment has used so far
    idlog,      \* the ids of the Order commands the engine received, in order
    wire,       \* per connection: bytes the client has sent, not yet read
    buf,        \* per connection: the handler's inbound buffer `buf`
    pc,         \* per connection: where the handler task `process` is
    sock,       \* per connection: what the handler has written to its socket
    flog,       \* per connection: the frames the handler has extracted
    sent,       \* per connection: all the bytes the client sends
    chlog       \* every command put on the command channel, in order

engineVars == <<bids, asks, lookup, sinks, sinkOpen, md, cur, pos, nrecv, idlog>>

gwVars == <<wire, buf, pc, sock, flog, sent>>

vars == <<bids, asks, lookup, cmdq, sinks, sinkOpen, md, cur, pos, nrecv, nsub, nid,
          idlog, wire, buf, pc, sock, flog, sent, chlog>>

\* ----------------------------------------------------------------- helpers
\* Faulty variant of MinOf: the fill is the taker's remaining quantity, the
\* `.min(front.qty)` forgotten.
MinOfNoCap(a, b) == a

\* `remaining.min(front.qty)` (engine.rs:129, 203).
MinOf(a, b) == IF a < b THEN a ELSE b

\* Faulty variant of MinKey: the walk of the asks starts at the far end.
LastKey(m) == CHOOSE p \in DOMAIN m : \A r \in DOMAIN m : p >= r

\* `b.asks.iter().next()` (engine.rs:116): the lowest price of a side.
MinKey(m) == CHOOSE p \in DOMAIN m : \A r \in DOMAIN m : p <= r

MaxKey(m) == CHOOSE p \in DOMAIN m : \A r \in DOMAIN m : p >= r

RemoveKey(m, k) == [p \in DOMAIN m \ {k} |-> m[p]]

PutKey(m, k, v) == [p \in DOMAIN m \cup {k} |-> IF p = k THEN v ELSE m[p]]

EmptyMap == [p \in {} |-> <<>>]

RECURSIVE SumQty(_)
SumQty(q) == IF q = <<>> THEN 0 ELSE Head(q).qty + SumQty(Tail(q))

RemoveAt(q, i) == SubSeq(q, 1, i - 1) \o SubSeq(q, i + 1, Len(q))

\* ------------------------------------------------------------------ events
Ack(ord_id, note) == [type |-> "Ack", ord_id |-> ord_id, note |-> note]

Reject(ord_id, reason) == [type |-> "Reject", ord_id |-> ord_id, reason |-> reason]

Trade(price, qty, taker, maker) ==
    [type |-> "Trade", price |-> price, qty |-> qty,
     taker_cl_id |-> taker, maker_cl_id |-> maker]

BookDelta(side, price, level_qty) ==
    [type |-> "BookDelta", side |-> side, price |-> price, level_qty |-> level_qty]

Pong == [type |-> "Pong"]

\* A send the engine performs: on the submitter's sink or on tx_md.
ToSink(ev) == [to |-> "sink", ev |-> ev]

ToMd(ev) == [to |-> "md", ev |-> ev]

\* ------------------------------------------------------- engine: handle_new
\* What one pass of the inner `while remaining > 0` loop records about a fill:
\* the locals of engine.rs:127-136 as they are before the two subtractions
\* (`remaining`, the head order), and the level queue before the fill and
\* after the `pop_front`.
FillRec(side, px, fill, remaining, front, q, q2) ==
    [side |-> side, price |-> px, qty |-> fill,
     taker_before |-> remaining, maker |-> front,
     level_before |-> q, level_after |-> q2]

TradeSendsMdFirst(trade) == <<ToMd(trade), ToSink(trade)>>

\* The two sends of a trade (engine.rs:147-148, 221-222): to the submitter,
\* then to the broadcast sink.
TradeSends(trade) == <<ToSink(trade), ToMd(trade)>>

\* Inner loop of the Bid branch (engine.rs:126-154): fill against the head of
\* the ask level `q` until the taker is done or the level is empty.
\* acc = [out |-> sends so far, fills |-> fills so far].
RECURSIVE FillAskLevel(_, _, _, _, _)
FillAskLevel(no, ask_px, q, remaining, acc) ==
    IF remaining > 0 /\ q # <<>>
    THEN LET front == Head(q)
             fill == MinOf(remaining, front.qty)
             emptied == (front.qty - fill) = 0
             trade == Trade(ask_px, fill, no.cl_id, front.cl_id)
             q2 == IF emptied THEN Tail(q)
                   ELSE <<[front EXCEPT !.qty = front.qty - fill]>> \o Tail(q)
         IN FillAskLevel(no, ask_px, q2, remaining - fill,
                [out |-> acc.out \o TradeSends(trade),
                 fills |-> Append(acc.fills,
                              FillRec("Ask", ask_px, fill, remaining, front, q, q2))])
    ELSE [q |-> q, remaining |-> remaining, out |-> acc.out, fills |-> acc.fills]

\* Inner loop of the Ask branch (engine.rs:200-228).
RECURSIVE FillBidLevel(_, _, _, _, _)
FillBidLevel(no, bid_px, q, remaining, acc) ==
    IF remaining > 0 /\ q # <<>>
    THEN LET front == Head(q)
             fill == MinOf(remaining, front.qty)
             emptied == (front.qty - fill) = 0
             trade == Trade(bid_px, fill, no.cl_id, front.cl_id)
             q2 == IF emptied THEN Tail(q)
                   ELSE <<[front EXCEPT !.qty = front.qty - fill]>> \o Tail(q)
         IN FillBidLevel(no, bid_px, q2, remaining - fill,
                [out |-> acc.out \o TradeSends(trade),
                 fills |-> Append(acc.fills,
                              FillRec("Bid", bid_px, fill, remaining, front, q, q2))])
    ELSE [q |-> q, remaining |-> remaining, out |-> acc.out, fills |-> acc.fills]

\* Faulty variant of BidStops: a bid equal to the best ask does not cross.
BidStopsAtEqual(price, ask_px) == price <= ask_px

\* Does a Bid taker at `price` stop in front of the best ask (engine.rs:120)?
BidStops(price, ask_px) == price < ask_px

\* Does an Ask taker at `price` stop in front of the best bid (engine.rs:194)?
AskStops(price, bid_px) == price > bid_px

\* Outer loop of the Bid branch (engine.rs:115-167): walk the asks from the
\* lowest price.  st = [remaining, asks, out, fills].
RECURSIVE CrossAsks(_, _)
CrossAsks(no, st) ==
    IF st.remaining > 0 /\ DOMAIN st.asks # {}
       /\ ~BidStops(no.price, MinKey(st.asks))
    THEN LET ask_px == MinKey(st.asks)
             r == FillAskLevel(no, ask_px, st.asks[ask_px], st.remaining,
                               [out |-> st.out, fills |-> st.fills])
             asks2 == IF r.q = <<>> THEN RemoveKey(st.asks, ask_px)
                      ELSE [st.asks EXCEPT ![ask_px] = r.q]
             lvl_qty == IF ask_px \in DOMAIN asks2 THEN SumQty(asks2[ask_px]) ELSE 0
         IN CrossAsks(no,
                [remaining |-> r.remaining, asks |-> asks2,
                 out |-> Append(r.out, ToMd(BookDelta("Ask", ask_px, lvl_qty))),
                 fills |-> r.fills])
    ELSE st

\* Outer loop of the Ask branch (engine.rs:189-241): walk the bids from the
\* highest price.  st = [remaining, bids, out, fills].
RECURSIVE CrossBids(_, _)
CrossBids(no, st) ==
    IF st.remaining > 0 /\ DOMAIN st.bids # {}
       /\ ~AskStops(no.price, MaxKey(st.bids))
    THEN LET bid_px == MaxKey(st.bids)
             r == FillBidLevel(no, bid_px, st.bids[bid_px], st.remaining,
                               [out |-> st.out, fills |-> st.fills])
             bids2 == IF r.q = <<>> THEN RemoveKey(st.bids, bid_px)
                      ELSE [st.bids EXCEPT ![bid_px] = r.q]
             lvl_qty == IF bid_px \in DOMAIN bids2 THEN SumQty(bids2[bid_px]) ELSE 0
         IN CrossBids(no,
                [remaining |-> r.remaining, bids |-> bids2,
                 out |-> Append(r.out, ToMd(BookDelta("Bid", bid_px, lvl_qty))),
                 fills |-> r.fills])
    ELSE st

\* Faulty variant of PushBack: the order is put at the head of its level.
PushFront(m, rest_px, no) ==
    PutKey(m, rest_px, <<no>> \o (IF rest_px \in DOMAIN m THEN m[rest_px] ELSE <<>>))

\* `entry(rest_px).or_insert_with(VecDeque::new)` then `push_back(no)`
\* (engine.rs:174-175, 248-249).
PushBack(m, rest_px, no) ==
    PutKey(m, rest_px, Append(IF rest_px \in DOMAIN m THEN m[rest_px] ELSE <<>>, no))

\* Faulty variant of Residual: the order rests with the quantity it came with.
ResidualWhole(no, remaining) == no

\* The order as it rests: `no.qty = remaining` (engine.rs:173, 247).
Residual(no, remaining) == [no EXCEPT !.qty = remaining]

\* Faulty variant of Rests: a GTC order rests whatever is left of it.
RestsWhenFilled(remaining, tif) == tif = "Gtc"

RestsAnyTif(remaining, tif) == remaining > 0

\* The residual rests iff something is left and the order is GTC
\* (engine.rs:170, 244).
Rests(remaining, tif) == remaining > 0 /\ tif = "Gtc"

\* handle_new, Bid branch (engine.rs:113-185).  b = [bids, asks, lookup].
HandleNewBid(no, b) ==
    LET c == CrossAsks(no, [remaining |-> no.qty, asks |-> b.asks,
                            out |-> <<>>, fills |-> <<>>])
        rest == Rests(c.remaining, no.tif)
        bids2 == IF rest THEN PushBack(b.bids, no.price, Residual(no, c.remaining))
                 ELSE b.bids
        lookup2 == IF rest THEN PutKey(b.lookup, no.id, <<"Bid", no.price>>)
                   ELSE b.lookup
        out2 == IF rest
                THEN Append(c.out, ToMd(BookDelta("Bid", no.price, SumQty(bids2[no.price]))))
                ELSE c.out
    IN [bids |-> bids2, asks |-> c.asks, lookup |-> lookup2,
        out |-> Append(out2, ToSink(Ack(no.id, "ok"))), fills |-> c.fills]

\* handle_new, Ask branch (engine.rs:187-259).
HandleNewAsk(no, b) ==
    LET c == CrossBids(no, [remaining |-> no.qty, bids |-> b.bids,
                            out |-> <<>>, fills |-> <<>>])
        rest == Rests(c.remaining, no.tif)
        asks2 == IF rest THEN PushBack(b.asks, no.price, Residual(no, c.remaining))
                 ELSE b.asks
        lookup2 == IF rest THEN PutKey(b.lookup, no.id, <<"Ask", no.price>>)
                   ELSE b.lookup
        out2 == IF rest
                THEN Append(c.out, ToMd(BookDelta("Ask", no.price, SumQty(asks2[no.price]))))
                ELSE c.out
    IN [bids |-> c.bids, asks |-> asks2, lookup |-> lookup2,
        out |-> Append(out2, ToSink(Ack(no.id, "ok"))), fills |-> c.fills]

\* handle_new (engine.rs:110-261).
HandleNew(no, b) ==
    IF no.side = "Bid" THEN HandleNewBid(no, b) ELSE HandleNewAsk(no, b)

PositionHead(q, ord_id) == IF q = <<>> THEN 0 ELSE 1

\* ---------------------------------------------------- engine: handle_cancel
\* `q.iter().position(|o| o.id == ord_id)` (engine.rs:273): 0 when absent.
Position(q, ord_id) ==
    IF \E i \in 1..Len(q) : q[i].id = ord_id
    THEN CHOOSE i \in 1..Len(q) : q[i].id = ord_id /\ \A j \in 1..(i - 1) : q[j].id # ord_id
    ELSE 0

\* handle_cancel (engine.rs:264-291).  The lookup entry is removed first
\* (`b.lookup.remove`), whether or not the order is then found in its level.
HandleCancel(ord_id, b) ==
    IF ord_id \in DOMAIN b.lookup
    THEN LET side == b.lookup[ord_id][1]
             px == b.lookup[ord_id][2]
             lookup2 == RemoveKey(b.lookup, ord_id)
             book_side == IF side = "Bid" THEN b.bids ELSE b.asks
             found == px \in DOMAIN book_side /\ Position(book_side[px], ord_id) # 0
         IN IF found
            THEN LET q2 == RemoveAt(book_side[px], Position(book_side[px], ord_id))
                     side2 == IF q2 = <<>> THEN RemoveKey(book_side, px)
                              ELSE [book_side EXCEPT ![px] = q2]
                 IN [ok |-> TRUE,
                     bids |-> IF side = "Bid" THEN side2 ELSE b.bids,
                     asks |-> IF side = "Ask" THEN side2 ELSE b.asks,
                     lookup |-> lookup2,
                     out |-> <<ToMd(BookDelta(side, px, SumQty(q2)))>>]
            ELSE [ok |-> FALSE, bids |-> b.bids, asks |-> b.asks,
                  lookup |-> lookup2, out |-> <<>>]
    ELSE [ok |-> FALSE, bids |-> b.bids, asks |-> b.asks,
          lookup |-> b.lookup, out |-> <<>>]

\* ------------------------------------------------------ engine: run_engine
\* Faulty variant of CancelReply: a failed cancel is not answered.
CancelReplyOnlyAck(ok, ord_id) ==
    IF ok THEN <<ToSink(Ack(ord_id, "canceled"))>> ELSE <<>>

\* What run_engine sends to the submitter after handle_cancel returned `ok`
\* (engine.rs:42-48).
CancelReply(ok, ord_id) ==
    <<ToSink(IF ok THEN Ack(ord_id, "canceled") ELSE Reject(ord_id, "not_found"))>>

\* The `match cmd` of run_engine (engine.rs:29-50): the book after the command,
\* the sends in program order, and the fills.
Handle(cmd, b) ==
    IF cmd.kind = "Ping"
    THEN [bids |-> b.bids, asks |-> b.asks, lookup |-> b.lookup,
          out |-> <<ToSink(Pong)>>, fills |-> <<>>]
    ELSE IF cmd.kind = "Order"
    THEN HandleNew(cmd.no, b)
    ELSE LET r == HandleCancel(cmd.ord_id, b)
         IN [bids |-> r.bids, asks |-> r.asks, lookup |-> r.lookup,
             out |-> r.out \o CancelReply(r.ok, cmd.ord_id),
             fills |-> <<>>]

\* One `send` on a bounded crossbeam channel whose receiver is alive returns at
\* once iff the channel has room; otherwise it waits.
HasRoom(ch, cap) == Len(ch) < cap

EnqueueFront(ch, x) == <<x>> \o ch

\* A send that returns has put its message behind those already in the channel.
Enqueue(ch, x) == Append(ch, x)

\* Faulty variant of Deliver: a send on a sink whose receiver is gone waits
\* like a send on a full sink.
RECURSIVE DeliverDeadWaits(_, _, _, _, _, _)
DeliverDeadWaits(out, p, c, sk, m, open) ==
    IF p = Len(out)
    THEN [pos |-> p, sinks |-> sk, md |-> m]
    ELSE LET s == out[p + 1]
         IN IF s.to = "sink"
            THEN IF open[c] /\ HasRoom(sk[c], SinkCap)
                 THEN DeliverDeadWaits(out, p + 1, c, [sk EXCEPT ![c] = Append(@, s.ev)],
                                       m, open)
                 ELSE [pos |-> p, sinks |-> sk, md |-> m]
            ELSE IF HasRoom(m, MdCap)
                 THEN DeliverDeadWaits(out, p + 1, c, sk, Append(m, s.ev), open)
                 ELSE [pos |-> p, sinks |-> sk, md |-> m]

\* The sends of `out` from position p on, in order, up to the first one that
\* has to wait.  A send on a sink whose receiver is gone returns Err, which
\* every call site ignores (`let _ =`).  The broadcast receiver `_rx_bcast`
\* lives as long as main (main.rs:174), so tx_md never reports Err.
\* Result: [pos, sinks, md].
RECURSIVE Deliver(_, _, _, _, _, _)
Deliver(out, p, c, sk, m, open) ==
    IF p = Len(out)
    THEN [pos |-> p, sinks |-> sk, md |-> m]
    ELSE LET s == out[p + 1]
         IN IF s.to = "sink"
            THEN IF ~open[c]
                 THEN Deliver(out, p + 1, c, sk, m, open)
                 ELSE IF HasRoom(sk[c], SinkCap)
                 THEN Deliver(out, p + 1, c, [sk EXCEPT ![c] = Append(@, s.ev)], m, open)
                 ELSE [pos |-> p, sinks |-> sk, md |-> m]
            ELSE IF HasRoom(m, MdCap)
                 THEN Deliver(out, p + 1, c, sk, Append(m, s.ev), open)
                 ELSE [pos |-> p, sinks |-> sk, md |-> m]

\* The engine is at `recv(rx_cmd)` (engine.rs:20): every send of the last
\* command has returned.
EngineIdle == pos = Len(cur.out)

Book == [bids |-> bids, asks |-> asks, lookup |-> lookup]

\* The order as the engine sees it; `arr` is the engine's order of receipt.
Stamp(cmd, n) ==
    IF cmd.kind = "Order" THEN [cmd EXCEPT !.no.arr = n] ELSE cmd

\* One iteration of the loop of run_engine (engine.rs:18-51): receive the next
\* command, handle it, and perform its sends up to one that has to wait.
EngineRecv ==
    /\ EngineIdle
    /\ cmdq # <<>>
    /\ LET cmd == Stamp(Head(cmdq), nrecv + 1)
           h == Handle(cmd, Book)
           d == Deliver(h.out, 0, cmd.sink, sinks, md, sinkOpen)
       IN /\ bids' = h.bids
          /\ asks' = h.asks
          /\ lookup' = h.lookup
          /\ cur' = [cmd |-> cmd, out |-> h.out, fills |-> h.fills, pre |-> Book,
                     presinks |-> sinks]
          /\ pos' = d.pos
          /\ sinks' = d.sinks
          /\ md' = d.md
    /\ cmdq' = Tail(cmdq)
    /\ nrecv' = nrecv + 1
    /\ idlog' = IF Head(cmdq).kind = "Order" THEN Append(idlog, Head(cmdq).no.id)
                ELSE idlog
    /\ UNCHANGED <<sinkOpen, nsub, nid, gwVars, chlog>>

\* A send that was waiting returns (the sink's receiver was dropped, which
\* wakes the sender with Err) and the handler runs on.
EngineResume ==
    /\ ~EngineIdle
    /\ LET d == Deliver(cur.out, pos, cur.cmd.sink, sinks, md, sinkOpen)
       IN /\ d.pos > pos
          /\ pos' = d.pos
          /\ sinks' = d.sinks
          /\ md' = d.md
    /\ UNCHANGED <<bids, asks, lookup, cmdq, sinkOpen, cur, nrecv, nsub, nid, idlog, gwVars,
                   chlog>>

\* The handler task of connection c ends and drops rx_evt (main.rs:188-193);
\* the channel discards what was queued.
DropConn(c) ==
    /\ sinkOpen[c]
    /\ sinkOpen' = [sinkOpen EXCEPT ![c] = FALSE]
    /\ sinks' = [sinks EXCEPT ![c] = <<>>]
    /\ UNCHANGED <<bids, asks, lookup, cmdq, md, cur, pos, nrecv, nsub, nid, idlog, gwVars,
                   chlog>>

\* ------------------------------------------------------------- environment
NewOrderOf(id, cl_id, side, price, qty, tif) ==
    [id |-> id, cl_id |-> cl_id, side |-> side, price |-> price, qty |-> qty,
     tif |-> tif, arr |-> 0]

PingCmd(c) == [kind |-> "Ping", sink |-> c]

OrderCmd(no, c) == [kind |-> "Order", no |-> no, sink |-> c]

CancelCmd(cl_id, ord_id, c) ==
    [kind |-> "Cancel", cl_id |-> cl_id, ord_id |-> ord_id, sink |-> c]

\* The order id a command names.
IdOf(cmd) ==
    IF cmd.kind = "Order" THEN cmd.no.id
    ELSE IF cmd.kind = "Cancel" THEN cmd.ord_id ELSE 0

\* Order ids come from the client (main.rs:105, 111) and the engine only
\* compares them for equality, so the environment introduces them in
\* increasing order: a command names an id already used or the next new one.
IdsNow == {id \in OrderIds : id <= nid + 1}

\* An IOC order is submitted with the largest quantity, which is the one that
\* can be filled in full, in part or not at all.
Shapes ==
    {<<s, p, q, t>> \in Sides \X Prices \X Qtys \X Tifs :
        t = "Ioc" => \A r \in Qtys : r <= q}

\* The commands a holder of connection c's sink can put on the channel; the
\* client id is the connection's.
Cmds(c) ==
    {PingCmd(c)}
    \cup {OrderCmd(NewOrderOf(id, c, sh[1], sh[2], sh[3], sh[4]), c) :
            id \in IdsNow, sh \in Shapes}
    \cup {CancelCmd(c, id, c) : id \in IdsNow}

\* `tx_cmd.send(cmd)` by a live connection: waits while the channel is full.
\* At most `max` commands are submitted in a run, over a channel of capacity
\* `cap`.
SubmitCap(c, cmd, max, cap) ==
    /\ nsub < max
    /\ sinkOpen[c]
    /\ HasRoom(cmdq, cap)
    /\ cmdq' = Enqueue(cmdq, cmd)
    /\ chlog' = Append(chlog, cmd)
    /\ nsub' = nsub + 1
    /\ nid' = IF IdOf(cmd) > nid THEN IdOf(cmd) ELSE nid
    /\ UNCHANGED <<engineVars, gwVars>>

SubmitUpTo(c, cmd, max) == SubmitCap(c, cmd, max, CmdCap)

Submit(c, cmd) == SubmitUpTo(c, cmd, MaxCmds)

NoCmd == [kind |-> "None", sink |-> 0]

\* ---------------------------------------------------------------- the wire
\* n as k little-endian bytes.
RECURSIVE LEBytes(_, _)
LEBytes(n, k) == IF k = 0 THEN <<>> ELSE <<n % 256>> \o LEBytes(n \div 256, k - 1)

\* n as the 8 little-endian bytes of an i64 (two's complement).
I64Bytes(n) ==
    IF n >= 0 THEN LEBytes(n, 8)
    ELSE [i \in 1..8 |-> 255 - LEBytes(-n - 1, 8)[i]]

\* `from_le_bytes` of an unsigned integer (main.rs:54, 104, 105).
RECURSIVE FromLE(_)
FromLE(b) == IF b = <<>> THEN 0 ELSE Head(b) + 256 * FromLE(Tail(b))

\* `i64::from_le_bytes` (main.rs:107, 108): the top bit is the sign.
I64FromLE(b) ==
    IF b[8] >= 128 THEN -(FromLE([i \in 1..8 |-> 255 - b[i]]) + 1) ELSE FromLE(b)

\* A frame as a client lays it out: [u32 len][u16 type][u16 body_len][payload]
\* (main.rs:20), with every field given.
RawFrame(payload_len, msg_type, body_len, payload) ==
    LEBytes(payload_len, 4) \o LEBytes(msg_type, 2) \o LEBytes(body_len, 2) \o payload

\* A well-formed frame: the lengths are those of the body.
Frame(msg_type, body) == RawFrame(4 + Len(body), msg_type, Len(body), body)

\* The body of a NewOrder as the handler reads it (main.rs:104-109).
NewOrderBody(client_id, cl_ord_id, side, price, qty, tif) ==
    LEBytes(client_id, 8) \o LEBytes(cl_ord_id, 8) \o <<side>>
        \o I64Bytes(price) \o I64Bytes(qty) \o <<tif>>

\* The body of a Cancel as the handler reads it (main.rs:130-131).
CancelBody(client_id, cl_ord_id) == LEBytes(client_id, 8) \o LEBytes(cl_ord_id, 8)

\* ------------------------------------------------- gateway: process (decode)
\* The `match msg_type` of process (main.rs:92-146) on a frame whose header
\* and body were read: the command it sends, NoCmd when it sends none, and
\* whether it panics (`expect` on a negative price or qty, main.rs:114-115).
Dispatch(msg_type, body_len, body, c) ==
    IF msg_type = MSG_PING
    THEN [panic |-> FALSE, cmd |-> PingCmd(c)]
    ELSE IF msg_type = MSG_NEW_ORDER
    THEN IF body_len >= NEW_ORDER_LEN
         THEN LET client_id == FromLE(SubSeq(body, 1, 8))
                  cl_ord_id == FromLE(SubSeq(body, 9, 16))
                  side == body[17]
                  price == I64FromLE(SubSeq(body, 18, 25))
                  qty == I64FromLE(SubSeq(body, 26, 33))
                  tif == body[34]
              IN IF price < 0 \/ qty < 0
                 THEN [panic |-> TRUE, cmd |-> NoCmd]
                 ELSE [panic |-> FALSE,
                       cmd |-> OrderCmd(NewOrderOf(cl_ord_id, client_id,
                                   IF side = 0 THEN "Bid" ELSE "Ask", price, qty,
                                   IF tif = 0 THEN "Gtc" ELSE "Ioc"), c)]
         ELSE [panic |-> FALSE, cmd |-> NoCmd]
    ELSE [panic |-> FALSE, cmd |-> NoCmd]

\* What process does with one extracted frame, `frame` being the bytes after
\* the length prefix (main.rs:66-146).  `get_u16_le` panics when fewer than two
\* bytes are left and `split_to` when body_len exceeds what is left.
\* Result: [payload_len, msg_type, body_len, body, panic, cmd]; a field that
\* was not read is -1.
DecodeFrame(frame, c) ==
    LET base == [payload_len |-> Len(frame), msg_type |-> -1, body_len |-> -1,
                 body |-> <<>>, panic |-> TRUE, cmd |-> NoCmd]
    IN IF Len(frame) < 2 THEN base
       ELSE LET msg_type == FromLE(SubSeq(frame, 1, 2))
            IN IF Len(frame) < 4 THEN [base EXCEPT !.msg_type = msg_type]
               ELSE LET body_len == FromLE(SubSeq(frame, 3, 4))
                    IN IF body_len > Len(frame) - 4
                       THEN [base EXCEPT !.msg_type = msg_type, !.body_len = body_len]
                       ELSE LET body == SubSeq(frame, 5, 4 + body_len)
                                d == Dispatch(msg_type, body_len, body, c)
                            IN [payload_len |-> Len(frame), msg_type |-> msg_type,
                                body_len |-> body_len, body |-> body,
                                panic |-> d.panic, cmd |-> d.cmd]

RestAfterPayload(b, payload_len) == SubSeq(b, 1 + payload_len, Len(b))

\* What `buf.split_to(4 + payload_len)` leaves in the buffer (main.rs:66).
RestAfter(b, payload_len) == SubSeq(b, 5 + payload_len, Len(b))

\* The buffer holds a whole frame (main.rs:53-63).
HasFrame(b) == Len(b) >= 6 /\ Len(b) >= 4 + FromLE(SubSeq(b, 1, 4))

\* The sizes of a read of the bytes w on the wire: one byte, a length prefix,
\* a header, or all there is.  Byte by byte every split of the stream happens.
ReadSizes(w) == {n \in 1..Len(w) : n \in {1, 4, 8} \/ n = Len(w)}

\* `socket.read_buf(&mut buf)` returns n > 0 bytes (main.rs:43): a prefix of
\* what is on the wire.
Read(c, n) ==
    /\ pc[c] = "read"
    /\ n \in 1..Len(wire[c])
    /\ buf' = [buf EXCEPT ![c] = @ \o SubSeq(wire[c], 1, n)]
    /\ wire' = [wire EXCEPT ![c] = SubSeq(@, n + 1, Len(@))]
    /\ pc' = [pc EXCEPT ![c] = "parse"]
    /\ UNCHANGED <<engineVars, cmdq, nsub, nid, sock, flog, sent, chlog>>

\* One pass of `while buf.len() >= 6` (main.rs:53-148): leave the loop when no
\* whole frame is buffered, else extract one frame and act on it.  A panic
\* ends the task, which drops rx_evt.  `tx_cmd.send` waits while the command
\* channel is full.
ParseFrame(c) ==
    /\ pc[c] = "parse"
    /\ IF ~HasFrame(buf[c])
       THEN /\ pc' = [pc EXCEPT ![c] = "read"]
            /\ UNCHANGED <<engineVars, cmdq, nsub, nid, wire, buf, sock, flog, sent, chlog>>
       ELSE LET payload_len == FromLE(SubSeq(buf[c], 1, 4))
                frame == SubSeq(buf[c], 5, 4 + payload_len)
                rest == RestAfter(buf[c], payload_len)
                r == DecodeFrame(frame, c)
            IN /\ flog' = [flog EXCEPT ![c] = Append(@, r)]
               /\ IF r.panic
                  THEN /\ pc' = [pc EXCEPT ![c] = "panicked"]
                       /\ buf' = [buf EXCEPT ![c] = <<>>]
                       /\ sinkOpen' = [sinkOpen EXCEPT ![c] = FALSE]
                       /\ sinks' = [sinks EXCEPT ![c] = <<>>]
                       /\ UNCHANGED <<cmdq, chlog>>
                  ELSE /\ buf' = [buf EXCEPT ![c] = rest]
                       /\ r.cmd # NoCmd => HasRoom(cmdq, CmdCap)
                       /\ cmdq' = IF r.cmd # NoCmd THEN Enqueue(cmdq, r.cmd) ELSE cmdq
                       /\ chlog' = IF r.cmd # NoCmd THEN Append(chlog, r.cmd) ELSE chlog
                       /\ UNCHANGED <<pc, sinkOpen, sinks>>
               /\ UNCHANGED <<bids, asks, lookup, md, cur, pos, nrecv, idlog,
                              nsub, nid, wire, sock, sent>>

\* `read_buf` returns 0 (main.rs:44-47): the client has closed and nothing is
\* left to read.  The task returns and drops rx_evt.
Close(c) ==
    /\ pc[c] = "read"
    /\ wire[c] = <<>>
    /\ pc' = [pc EXCEPT ![c] = "closed"]
    /\ sinkOpen' = [sinkOpen EXCEPT ![c] = FALSE]
    /\ sinks' = [sinks EXCEPT ![c] = <<>>]
    /\ UNCHANGED <<bids, asks, lookup, cmdq, md, cur, pos, nrecv, nsub, nid, idlog,
                   wire, buf, sock, flog, sent, chlog>>

\* The engine and the channels after main has set them up (main.rs:173-177,
\* engine.rs:12), every connection accepted and its handler at its first read.
InitEngine ==
    /\ bids = EmptyMap
    /\ asks = EmptyMap
    /\ lookup = EmptyMap
    /\ cmdq = <<>>
    /\ chlog = <<>>
    /\ sinks = [c \in Conn |-> <<>>]
    /\ sinkOpen = [c \in Conn |-> TRUE]
    /\ md = <<>>
    /\ cur = [cmd |-> NoCmd, out |-> <<>>, fills |-> <<>>,
              pre |-> [bids |-> EmptyMap, asks |-> EmptyMap, lookup |-> EmptyMap],
              presinks |-> [c \in Conn |-> <<>>]]
    /\ pos = 0
    /\ nrecv = 0
    /\ nsub = 0
    /\ nid = 0
    /\ idlog = <<>>
    /\ buf = [c \in Conn |-> <<>>]
    /\ pc = [c \in Conn |-> "read"]
    /\ sock = [c \in Conn |-> <<>>]
    /\ flog = [c \in Conn |-> <<>>]

\* No bytes are on their way: the commands come from Submit.
Init ==
    /\ InitEngine
    /\ wire = [c \in Conn |-> <<>>]
    /\ sent = wire

\* The commands of the specification of the book: connection 1 buys, pings
\* and cancels, connection 2 sells.
BookCmds(c) ==
    {cmd \in Cmds(c) :
        IF cmd.kind = "Order" THEN (cmd.no.side = "Bid") = (c = 1) ELSE c = 1}

\* The engine fed by a buying and a selling connection that stay open.
Next ==
    \/ \E c \in Conn : \E cmd \in BookCmds(c) : Submit(c, cmd)
    \/ EngineRecv

Spec == Init /\ [][Next]_vars

\* The commands of the specification of quantities: orders as in the book's
\* specification, of quantity zero or one.
QtyCmds(c) ==
    {OrderCmd(NewOrderOf(id, c, IF c = 1 THEN "Bid" ELSE "Ask", p, q, t), c) :
        id \in IdsNow, p \in Prices, q \in {0, 1}, t \in Tifs}

\* The engine fed with orders some of which have quantity zero, which the
\* gateway lets through (main.rs:115).
NextQty ==
    \/ \E c \in Conn : \E cmd \in QtyCmds(c) : Submit(c, cmd)
    \/ EngineRecv

SpecQty == Init /\ [][NextQty]_vars

\* Prices with zero among them: `price` is a u64 (types.rs:21) and the gateway
\* lets every non-negative i64 through (main.rs:114).
ZeroPrices == {0, 1}

\* The commands of the specification of price zero: connection 1 buys and
\* connection 2 sells, at price zero or one, the smallest quantity.
ZeroCmds(c) ==
    {OrderCmd(NewOrderOf(id, c, IF c = 1 THEN "Bid" ELSE "Ask", p,
                         CHOOSE q \in Qtys : \A r \in Qtys : q <= r, t), c) :
        id \in IdsNow, p \in ZeroPrices, t \in Tifs}

\* The engine fed with orders some of which have price zero.
NextZero ==
    \/ \E c \in Conn : \E cmd \in ZeroCmds(c) : Submit(c, cmd)
    \/ EngineRecv

SpecZero == Init /\ [][NextZero]_vars

\* The commands of the specification of cancels: connection 1 buys and
\* cancels, connection 2 sells; every order is GTC of the smallest quantity.
CancelCmds(c) ==
    {OrderCmd(NewOrderOf(id, c, IF c = 1 THEN "Bid" ELSE "Ask", p,
                         CHOOSE q \in Qtys : \A r \in Qtys : q <= r, "Gtc"), c) :
        id \in IdsNow, p \in Prices}
    \cup {CancelCmd(c, id, c) : id \in {i \in IdsNow : c = 1}}

\* The engine fed with resting orders and Cancels, in longer runs.
NextCancel ==
    \/ \E c \in Conn : \E cmd \in CancelCmds(c) : SubmitUpTo(c, cmd, MaxCancelCmds)
    \/ EngineRecv

SpecCancel == Init /\ [][NextCancel]_vars

\* The commands of the specification of the command order: each connection
\* pings, submits GTC orders of the smallest quantity at the lowest price
\* (connection 1 buys, the others sell) and cancels.
OrderingCmds(c) ==
    {PingCmd(c)}
    \cup {OrderCmd(NewOrderOf(id, c, IF c = 1 THEN "Bid" ELSE "Ask",
                              CHOOSE p \in Prices : \A r \in Prices : p <= r,
                              CHOOSE q \in Qtys : \A r \in Qtys : q <= r, "Gtc"), c) :
            id \in IdsNow}
    \cup {CancelCmd(c, id, c) : id \in IdsNow}

\* Several connections send concurrently into a command channel that holds
\* more than one command.
NextOrdering ==
    \/ \E c \in Conn : \E cmd \in OrderingCmds(c) : SubmitCap(c, cmd, MaxCmds, OrderChanCap)
    \/ EngineRecv

SpecOrdering == Init /\ [][NextOrdering]_vars

\* The commands of the specification with several connections: each
\* connection pings, submits GTC orders under one order id of its own at the
\* lowest price, and cancels its own or another connection's order.
ConnCmds(c) ==
    {PingCmd(c)}
    \cup {OrderCmd(NewOrderOf(c, c, s, p, q, "Gtc"), c) :
            s \in Sides, p \in {r \in Prices : \A r2 \in Prices : r <= r2}, q \in Qtys}
    \cup {CancelCmd(c, id, c) : id \in Conn}

\* The engine fed by several connections, each of which may go away.
NextConn ==
    \/ \E c \in Conn : \E cmd \in ConnCmds(c) : Submit(c, cmd)
    \/ EngineRecv
    \/ EngineResume
    \/ \E c \in Conn : DropConn(c)

SpecConn == Init /\ [][NextConn]_vars

\* ------------------------------------------------- gateway and engine together
\* The frames a client sends: a Ping, a Cancel, two NewOrders that cross, a
\* NewOrder with a negative price, one with side byte 2, one with tif byte 2,
\* a frame of an unknown type, a frame too
\* short for its header, a frame whose body_len is less than payload_len - 4
\* and one whose body_len is more.
GwFrames ==
    {Frame(MSG_PING, <<>>),
     Frame(MSG_CANCEL, CancelBody(1, 1)),
     Frame(MSG_NEW_ORDER, NewOrderBody(1, 1, 0, 1, 2, 0)),
     Frame(MSG_NEW_ORDER, NewOrderBody(1, 2, 1, 1, 1, 1)),
     Frame(MSG_NEW_ORDER, NewOrderBody(1, 1, 0, -1, 1, 0)),
     Frame(MSG_NEW_ORDER, NewOrderBody(1, 2, 2, 1, 1, 0)),
     Frame(MSG_NEW_ORDER, NewOrderBody(1, 2, 1, 1, 1, 2)),
     Frame(7, <<>>),
     SubSeq(RawFrame(2, MSG_PING, 0, <<>>), 1, 6),
     RawFrame(6, MSG_PING, 0, <<0, 0>>),
     RawFrame(4, MSG_PING, 3, <<>>)}

\* The byte streams of at most k frames.
RECURSIVE StreamsOf(_)
StreamsOf(k) ==
    IF k = 0 THEN {<<>>}
    ELSE StreamsOf(k - 1) \cup {s \o f : s \in StreamsOf(k - 1), f \in GwFrames}

\* Connection 1's client sends a stream of frames; connection 2's sends
\* nothing.
InitGw ==
    /\ InitEngine
    /\ wire \in {[c \in Conn |-> IF c = 1 THEN s ELSE <<>>] : s \in StreamsOf(MaxFrames)}
    /\ sent = wire

NextGw ==
    \/ \E c \in Conn : \E n \in ReadSizes(wire[c]) : Read(c, n)
    \/ \E c \in Conn : ParseFrame(c)
    \/ \E c \in Conn : Close(c)
    \/ EngineRecv

SpecGw == InitGw /\ [][NextGw]_vars

\* The frames of GwFrames that are well-formed: their lengths agree, their
\* type is known and their fields are in range.
GoodFrames ==
    {f \in GwFrames :
        /\ Len(f) >= 8
        /\ FromLE(SubSeq(f, 1, 4)) = Len(f) - 4
        /\ FromLE(SubSeq(f, 7, 8)) = Len(f) - 8
        /\ \/ FromLE(SubSeq(f, 5, 6)) \in {MSG_PING, MSG_CANCEL}
           \/ /\ FromLE(SubSeq(f, 5, 6)) = MSG_NEW_ORDER
              /\ Len(f) = 8 + NEW_ORDER_LEN
              /\ f[8 + 17] \in {0, 1} /\ f[8 + 34] \in {0, 1}
              /\ f[8 + 25] < 128 /\ f[8 + 33] < 128}

\* The byte streams of at most k well-formed frames.
RECURSIVE GoodStreamsOf(_)
GoodStreamsOf(k) ==
    IF k = 0 THEN {<<>>}
    ELSE GoodStreamsOf(k - 1) \cup {s \o f : s \in GoodStreamsOf(k - 1), f \in GoodFrames}

\* Connection 1's client sends well-formed frames only.
InitFraming ==
    /\ InitEngine
    /\ wire \in {[c \in Conn |-> IF c = 1 THEN s ELSE <<>>] : s \in GoodStreamsOf(MaxFrames)}
    /\ sent = wire

SpecFraming == InitFraming /\ [][NextGw]_vars

\* The engine thread and every handler task get to run: a step of theirs that
\* stays possible is taken.  A client is free never to close its connection.
FairSpecGw ==
    /\ SpecGw
    /\ WF_vars(EngineRecv)
    /\ \A c \in Conn : WF_vars(ParseFrame(c))
    /\ \A c \in Conn : WF_vars(\E n \in ReadSizes(wire[c]) : Read(c, n))

\* ================================================================ properties
\* The orders resting in the book, each with the level it sits in.
Slots(m, side) ==
    UNION {{<<side, p, i>> : i \in 1..Len(m[p])} : p \in DOMAIN m}

AllSlots == Slots(bids, "Bid") \cup Slots(asks, "Ask")

OrderIn(slot) ==
    IF slot[1] = "Bid" THEN bids[slot[2]][slot[3]] ELSE asks[slot[2]][slot[3]]

SlotsOfId(id) == {sl \in AllSlots : OrderIn(sl).id = id}

\* The events among the sends `out` that go to the submitter's sink.
RECURSIVE SinkEvents(_)
SinkEvents(out) ==
    IF out = <<>> THEN <<>>
    ELSE IF Head(out).to = "sink" THEN <<Head(out).ev>> \o SinkEvents(Tail(out))
    ELSE SinkEvents(Tail(out))

\* The events among the sends `out` that go to the broadcast sink.
RECURSIVE MdEvents(_)
MdEvents(out) ==
    IF out = <<>> THEN <<>>
    ELSE IF Head(out).to = "md" THEN <<Head(out).ev>> \o MdEvents(Tail(out))
    ELSE MdEvents(Tail(out))

Terminal(ev) == ev.type \in {"Ack", "Reject"}

Terminals(evs) == {i \in 1..Len(evs) : Terminal(evs[i])}

TradesOf(evs) == SelectSeq(evs, LAMBDA e : e.type = "Trade")

\* The engine has handled at least one command and is back at the receive.
AfterCommand == EngineIdle /\ cur.cmd.kind # "None"

\* No two Order commands the engine received carry the same id.
IdsDistinct == \A i, j \in 1..Len(idlog) : i # j => idlog[i] # idlog[j]

\* C1: after every command, an id is a key of lookup iff exactly one order
\* with that id rests in the book, and that order is in the level lookup
\* records for it (so a fully filled maker's id is no longer a key).  Stated
\* for the runs in which every order came with an id of its own.
C1_LookupExact ==
    AfterCommand /\ IdsDistinct =>
        \A id \in OrderIds :
            /\ id \in DOMAIN lookup <=> Cardinality(SlotsOfId(id)) = 1
            /\ id \in DOMAIN lookup =>
                 \A sl \in SlotsOfId(id) : <<sl[1], sl[2]>> = lookup[id]

\* C2: after every command the book is not crossed: with both sides non-empty
\* the highest bid price is strictly below the lowest ask price.
C2_NotCrossed ==
    AfterCommand =>
        (DOMAIN bids # {} /\ DOMAIN asks # {} => MaxKey(bids) < MinKey(asks))

\* C2 witness: an order traded against the opposite side and its residual
\* rests, with both sides of the book non-empty.
C2_Witness ==
    /\ AfterCommand
    /\ cur.cmd.kind = "Order"
    /\ cur.fills # <<>>
    /\ cur.cmd.no.id \in DOMAIN lookup
    /\ DOMAIN bids # {} /\ DOMAIN asks # {}

ArrivalOrdered(q) == \A i, j \in 1..Len(q) : i < j => q[i].arr < q[j].arr

\* C4: FIFO within a level.  Every level holds its orders in the order the
\* engine accepted them; a Trade is made against an order only when no order
\* accepted earlier is still in its level; and a partial fill leaves the
\* filled order at the head with the orders behind it unchanged.
C4_Fifo ==
    /\ \A p \in DOMAIN bids : ArrivalOrdered(bids[p])
    /\ \A p \in DOMAIN asks : ArrivalOrdered(asks[p])
    /\ \A k \in 1..Len(cur.fills) :
        LET f == cur.fills[k]
        IN /\ \A i \in 1..Len(f.level_before) :
                 f.level_before[i].arr >= f.maker.arr
           /\ f.qty < f.maker.qty =>
                 /\ f.level_after # <<>>
                 /\ Head(f.level_after).arr = f.maker.arr
                 /\ Tail(f.level_after) = Tail(f.level_before)

\* C4 witness: one order consumed the earlier of two resting orders of a level
\* in full and then filled the later one in part.
C4_Witness ==
    /\ AfterCommand
    /\ \E i, j \in 1..Len(cur.fills) :
        /\ i < j
        /\ cur.fills[i].price = cur.fills[j].price
        /\ cur.fills[i].maker.arr < cur.fills[j].maker.arr
        /\ Len(cur.fills[i].level_before) >= 2
        /\ cur.fills[j].qty < cur.fills[j].maker.qty

\* C5: the Trades sent to the submitter are the fills, one for one, with the
\* fill's price and quantity; each quantity is positive, at most what the
\* taker still had to fill and at most the maker's remaining quantity; and the
\* maker's remaining quantity, hence the level's aggregate, drops by it.
C5_FillBounds ==
    LET trades == TradesOf(SinkEvents(cur.out))
    IN /\ Len(trades) = Len(cur.fills)
       /\ TradesOf(MdEvents(cur.out)) = trades
       /\ \A k \in 1..Len(cur.fills) :
            LET f == cur.fills[k]
            IN /\ trades[k].price = f.price
               /\ trades[k].qty = f.qty
               /\ f.qty > 0
               /\ f.qty <= f.taker_before
               /\ f.qty <= f.maker.qty
               /\ SumQty(f.level_after) = SumQty(f.level_before) - f.qty
               /\ IF f.qty = f.maker.qty
                  THEN f.level_after = Tail(f.level_before)
                  ELSE Head(f.level_after) =
                           [f.maker EXCEPT !.qty = f.maker.qty - f.qty]

\* C5 witness: a command made two trades, one that took a maker in full and
\* one that took a maker in part.
C5_Witness ==
    /\ AfterCommand
    /\ \E i, j \in 1..Len(cur.fills) :
        /\ cur.fills[i].qty = cur.fills[i].maker.qty
        /\ cur.fills[j].qty < cur.fills[j].maker.qty
        /\ cur.fills[j].qty = cur.fills[j].taker_before

\* The engine is inside a send that has not returned.
EngineWaits == ~EngineIdle

WaitsOn == IF EngineWaits THEN cur.out[pos + 1].to ELSE "none"

\* C6: the engine never waits in a send to a submitter's sink whose receiver is
\* alive, so it always gets back to the command channel.
C6_SinkSendNeverWaits == ~(WaitsOn = "sink" /\ sinkOpen[cur.cmd.sink])

\* C7: the engine never waits in a send to the broadcast sink.
C7_BroadcastNeverWaits == WaitsOn # "md"

\* A frame record of flog whose lengths disagree: payload_len < 4, or body_len
\* other than payload_len - 4.
Malformed(r) == r.payload_len < 4 \/ r.body_len # r.payload_len - 4

Recognized(r) == r.msg_type \in {MSG_PING, MSG_NEW_ORDER, MSG_CANCEL}

\* A frame of a recognized type with the body its type has, every field in
\* range.
WellFormed(r) ==
    /\ ~Malformed(r)
    /\ \/ r.msg_type = MSG_PING /\ r.body_len = 0
       \/ r.msg_type = MSG_CANCEL /\ r.body_len = CANCEL_LEN
       \/ /\ r.msg_type = MSG_NEW_ORDER
          /\ r.body_len = NEW_ORDER_LEN
          /\ r.body[17] \in {0, 1}
          /\ r.body[34] \in {0, 1}
          /\ r.body[25] < 128
          /\ r.body[33] < 128

\* The command that stands for a well-formed frame read on connection c.
CommandOf(r, c) ==
    IF r.msg_type = MSG_PING THEN PingCmd(c)
    ELSE IF r.msg_type = MSG_CANCEL
    THEN CancelCmd(FromLE(SubSeq(r.body, 1, 8)), FromLE(SubSeq(r.body, 9, 16)), c)
    ELSE OrderCmd(NewOrderOf(FromLE(SubSeq(r.body, 9, 16)), FromLE(SubSeq(r.body, 1, 8)),
                     IF r.body[17] = 0 THEN "Bid" ELSE "Ask",
                     FromLE(SubSeq(r.body, 18, 25)), FromLE(SubSeq(r.body, 26, 33)),
                     IF r.body[34] = 0 THEN "Gtc" ELSE "Ioc"), c)

\* C8: for every well-formed frame of a recognized type that a handler has
\* decoded (Ping, NewOrder, Cancel) the handler has put the corresponding
\* command, tagged with its connection's sink, on the command channel.
C8_FramesBecomeCommands ==
    \A c \in Conn : \A i \in 1..Len(flog[c]) :
        WellFormed(flog[c][i]) => flog[c][i].cmd = CommandOf(flog[c][i], c)

\* C9: an event waiting on the sink of an open connection is in the end
\* written to the connection's socket (or the connection has gone).
C9_EventsReachSocket ==
    \A c \in Conn :
        (sinkOpen[c] /\ sinks[c] # <<>>) ~> (~sinkOpen[c] \/ sock[c] # <<>>)

RejectsIn(evs, reason) ==
    Len(SelectSeq(evs, LAMBDA e : e.type = "Reject" /\ e.reason = reason))

UnknownType(r) == ~Malformed(r) /\ ~Recognized(r)

\* The frames of connection c that were malformed, and those of unknown type.
BadFrames(c) == {i \in 1..Len(flog[c]) : Malformed(flog[c][i])}

UnknownFrames(c) == {i \in 1..Len(flog[c]) : UnknownType(flog[c][i])}

\* C10: a malformed frame or a frame of an unknown type is not forwarded to
\* the engine, the handler answers it with a Reject "bad_frame" or
\* "unknown_msg" on its sink, and the handler goes on running.
C10_BadFramesRejected ==
    \A c \in Conn :
        /\ \A i \in BadFrames(c) \cup UnknownFrames(c) :
              flog[c][i].cmd = NoCmd /\ ~flog[c][i].panic
        /\ pc[c] \in {"read", "parse"} =>
              /\ RejectsIn(sinks[c], "bad_frame") = Cardinality(BadFrames(c))
              /\ RejectsIn(sinks[c], "unknown_msg") = Cardinality(UnknownFrames(c))

\* A NewOrder frame of the right lengths one of whose fields is out of range:
\* a negative price or qty, a side byte or a tif byte other than 0 and 1.
InvalidNewOrder(r) ==
    /\ ~Malformed(r)
    /\ r.msg_type = MSG_NEW_ORDER
    /\ r.body_len = NEW_ORDER_LEN
    /\ \/ I64FromLE(SubSeq(r.body, 18, 25)) < 0
       \/ I64FromLE(SubSeq(r.body, 26, 33)) < 0
       \/ r.body[17] \notin {0, 1}
       \/ r.body[34] \notin {0, 1}

InvalidOrderFrames(c) == {i \in 1..Len(flog[c]) : InvalidNewOrder(flog[c][i])}

\* C11: a NewOrder frame with a negative price or qty or with a side or tif
\* byte out of range puts no Order command on the command channel, the
\* handler goes on running, and the sink of the connection gets a Reject for
\* each such frame.
C11_BadOrdersRejected ==
    \A c \in Conn :
        /\ \A i \in InvalidOrderFrames(c) :
              flog[c][i].cmd = NoCmd /\ ~flog[c][i].panic
        /\ pc[c] \in {"read", "parse"} =>
              Len(SelectSeq(sinks[c], LAMBDA e : e.type = "Reject"))
                  >= Cardinality(InvalidOrderFrames(c))

\* C12: a NewOrder of quantity zero that the engine has handled was answered
\* with Reject "invalid" and nothing else, sent nothing to the broadcast sink
\* and left the book as it was.
C12_ZeroQtyRejected ==
    AfterCommand /\ cur.cmd.kind = "Order" /\ cur.cmd.no.qty = 0 =>
        /\ SinkEvents(cur.out) = <<Reject(cur.cmd.no.id, "invalid")>>
        /\ MdEvents(cur.out) = <<>>
        /\ Book = cur.pre

\* The ids that lookup records on side `side`, with the price of each.
LookupOf(lk, side) == {<<id, lk[id][2]>> : id \in {k \in DOMAIN lk : lk[k][1] = side}}

\* The quantity a command's fills took.
RECURSIVE FilledQty(_)
FilledQty(fills) ==
    IF fills = <<>> THEN 0 ELSE Head(fills).qty + FilledQty(Tail(fills))

\* C13: an IOC order never rests.  After the command the order's own side of
\* the book and the entries of lookup for that side are as before, no
\* BookDelta for the order's own side was broadcast, and lookup has no id it
\* did not have.
C13_IocNeverRests ==
    AfterCommand /\ cur.cmd.kind = "Order" /\ cur.cmd.no.tif = "Ioc" =>
        LET side == cur.cmd.no.side
        IN /\ IF side = "Bid" THEN bids = cur.pre.bids ELSE asks = cur.pre.asks
           /\ LookupOf(lookup, side) = LookupOf(cur.pre.lookup, side)
           /\ DOMAIN lookup \subseteq DOMAIN cur.pre.lookup
           /\ \A i \in 1..Len(cur.out) :
                 cur.out[i].ev.type = "BookDelta" => cur.out[i].ev.side # side

\* C13 witness: an IOC order was filled in part and its residual discarded.
C13_Witness ==
    /\ AfterCommand
    /\ cur.cmd.kind = "Order"
    /\ cur.cmd.no.tif = "Ioc"
    /\ cur.fills # <<>>
    /\ FilledQty(cur.fills) < cur.cmd.no.qty

\* The ids of the orders resting in book b.
RestingIds(b) ==
    UNION {{b.bids[p][i].id : i \in 1..Len(b.bids[p])} : p \in DOMAIN b.bids}
    \cup UNION {{b.asks[p][i].id : i \in 1..Len(b.asks[p])} : p \in DOMAIN b.asks}

LevelOf(b, side, px) ==
    LET m == IF side = "Bid" THEN b.bids ELSE b.asks
    IN IF px \in DOMAIN m THEN m[px] ELSE <<>>

\* The levels of book b that hold an order of id `id`.
LevelsWith(b, id) ==
    {sp \in Sides \X Prices :
        \E i \in 1..Len(LevelOf(b, sp[1], sp[2])) : LevelOf(b, sp[1], sp[2])[i].id = id}

\* C14: a Cancel of an id that rests in the book succeeds.  One order of that
\* id has left its level, the others of the level keeping their order; the
\* level's key is gone when it was the last; lookup no longer has the id; the
\* command sent one BookDelta for the level with what is left in it, then Ack
\* "canceled"; every other level of the book is as before.
C14_CancelResting ==
    AfterCommand /\ cur.cmd.kind = "Cancel"
                 /\ cur.cmd.ord_id \in RestingIds(cur.pre) =>
        \E sp \in LevelsWith(cur.pre, cur.cmd.ord_id) :
            LET before == LevelOf(cur.pre, sp[1], sp[2])
                after == LevelOf(Book, sp[1], sp[2])
            IN /\ \E i \in 1..Len(before) :
                     before[i].id = cur.cmd.ord_id /\ after = RemoveAt(before, i)
               /\ \A m \in {bids, asks} : \A p \in DOMAIN m : m[p] # <<>>
               /\ \A sq \in (Sides \X Prices) \ {sp} :
                     LevelOf(Book, sq[1], sq[2]) = LevelOf(cur.pre, sq[1], sq[2])
               /\ cur.cmd.ord_id \notin DOMAIN lookup
               /\ cur.out = <<ToMd(BookDelta(sp[1], sp[2], SumQty(after))),
                              ToSink(Ack(cur.cmd.ord_id, "canceled"))>>

C16_IdsUnique ==
    /\ IdsDistinct
    /\ \A id \in OrderIds : Cardinality(SlotsOfId(id)) <= 1

\* The whole frames at the front of the bytes s, each with its length prefix:
\* a frame is the 4 bytes of payload_len and the payload_len bytes after them.
RECURSIVE FramesIn(_)
FramesIn(s) ==
    IF Len(s) >= 4 /\ Len(s) >= 4 + FromLE(SubSeq(s, 1, 4))
    THEN LET n == 4 + FromLE(SubSeq(s, 1, 4))
         IN <<SubSeq(s, 1, n)>> \o FramesIn(SubSeq(s, n + 1, Len(s)))
    ELSE <<>>

\* The bytes of s after its whole frames.
RECURSIVE RestOf(_)
RestOf(s) ==
    IF Len(s) >= 4 /\ Len(s) >= 4 + FromLE(SubSeq(s, 1, 4))
    THEN RestOf(SubSeq(s, 5 + FromLE(SubSeq(s, 1, 4)), Len(s)))
    ELSE s

\* The lengths of the first k frames of fs, added up.
RECURSIVE BytesOf(_, _)
BytesOf(fs, k) == IF k = 0 THEN 0 ELSE Len(fs[k]) + BytesOf(fs, k - 1)

\* The bytes s are a sequence of well-formed frames.
GoodStream(s) ==
    /\ RestOf(s) = <<>>
    /\ \A i \in 1..Len(FramesIn(s)) : FramesIn(s)[i] \in GoodFrames

\* C17: frame extraction does not depend on how the stream is cut into reads.
\* For a stream of well-formed frames, with `arrived` the bytes read so far:
\* the frames the handler has decoded are, in order, the whole frames of
\* `arrived` (their type and body), all of them once the handler is back at
\* its read; the buffer is `arrived` less 4 + payload_len bytes per decoded
\* frame, so an incomplete frame stays in it as it is; a Ping frame has made a
\* Ping command; and the buffer is empty when the whole stream has arrived.
C17_SegmentationIndependent ==
    \A c \in Conn :
        GoodStream(sent[c]) =>
            LET arrived == SubSeq(sent[c], 1, Len(sent[c]) - Len(wire[c]))
                whole == FramesIn(arrived)
                k == Len(flog[c])
            IN /\ pc[c] # "panicked"
               /\ k <= Len(whole)
               /\ \A i \in 1..k :
                     /\ flog[c][i].msg_type = FromLE(SubSeq(whole[i], 5, 6))
                     /\ flog[c][i].body = SubSeq(whole[i], 9, Len(whole[i]))
                     /\ flog[c][i].payload_len = Len(whole[i]) - 4
                     /\ flog[c][i].msg_type = MSG_PING => flog[c][i].cmd = PingCmd(c)
               /\ buf[c] = SubSeq(arrived, BytesOf(whole, k) + 1, Len(arrived))
               /\ pc[c] \in {"read", "closed"} => k = Len(whole) /\ buf[c] = RestOf(arrived)
               /\ pc[c] \in {"read", "closed"} /\ wire[c] = <<>> =>
                     buf[c] = <<>> /\ k = Len(FramesIn(sent[c]))

\* C17 witness: the handler is back at its read after a read that brought the
\* end of one frame and the first 3 bytes of the next: one frame is decoded
\* and the 3 bytes wait in the buffer.
C17_Witness ==
    /\ GoodStream(sent[1])
    /\ pc[1] = "read"
    /\ Len(flog[1]) = 1
    /\ Len(buf[1]) = 3
    /\ wire[1] # <<>>

\* The commands of connection c among cmds, in order.
Of(cmds, c) == SelectSeq(cmds, LAMBDA cmd : cmd.sink = c)

\* Event e is the answer to command cmd.
Answers(e, cmd) ==
    IF cmd.kind = "Ping" THEN e = Pong
    ELSE IF cmd.kind = "Order" THEN e = Ack(cmd.no.id, "ok")
    ELSE e \in {Ack(cmd.ord_id, "canceled"), Reject(cmd.ord_id, "not_found")}

\* The answers (Ack, Reject, Pong) among the events evs, in order.
AnswersIn(evs) == SelectSeq(evs, LAMBDA e : e.type \in {"Ack", "Reject", "Pong"})

\* C18: the engine receives the commands in the order in which they entered
\* the command channel, none lost, none twice: what is in the channel is what
\* was sent and not yet received, the channel never holds more than its
\* capacity, and the command the engine received last is the next of that
\* order.  The answers on a connection's sink are those to the connection's
\* commands, in the order of the commands.
C18_TotalOrder ==
    /\ Len(cmdq) <= OrderChanCap
    /\ nrecv <= Len(chlog)
    /\ cmdq = SubSeq(chlog, nrecv + 1, Len(chlog))
    /\ nrecv > 0 => cur.cmd = Stamp(chlog[nrecv], nrecv)
    /\ \A c \in Conn :
        sinkOpen[c] =>
            LET mine == Of(SubSeq(chlog, 1, nrecv), c)
                got == AnswersIn(sinks[c])
            IN /\ Len(got) <= Len(mine)
               /\ EngineIdle => Len(got) = Len(mine)
               /\ \A i \in 1..Len(got) : Answers(got[i], mine[i])

\* C18 witness: the channel is full with commands of two connections, sent
\* while the engine had received one command, and a connection that has been
\* answered has a command waiting.
C18_Witness ==
    /\ Len(cmdq) = OrderChanCap
    /\ \E i, j \in 1..Len(cmdq) : cmdq[i].sink # cmdq[j].sink
    /\ nrecv > 0
    /\ \E i \in 1..Len(cmdq) : sinks[cmdq[i].sink] # <<>>

\* The Trade event of the fill f of the order no.
TradeOfFill(f, no) == Trade(f.price, f.qty, no.cl_id, f.maker.cl_id)

\* C19: the sends of a NewOrder, in the order the engine makes them.  To the
\* submitter's sink go the order's Trades, one per fill in the order of the
\* fills (levels from the best price on, each level from its head), then Ack
\* "ok" with the order's id, and nothing else; the sink holds those of them
\* that were sent so far, behind what it held; each Trade to the submitter is
\* followed at once by the same Trade to the broadcast sink, which gets no
\* other Trade; and no sink of a connection ever holds a BookDelta.
C19_SinkOrder ==
    /\ \A c \in Conn : \A i \in 1..Len(sinks[c]) : sinks[c][i].type # "BookDelta"
    /\ cur.cmd.kind = "Order" =>
        LET no == cur.cmd.no
            evs == SinkEvents(cur.out)
            n == Len(cur.fills)
        IN /\ evs = [k \in 1..n |-> TradeOfFill(cur.fills[k], no)]
                        \o <<Ack(no.id, "ok")>>
           /\ sinks[cur.cmd.sink] =
                 cur.presinks[cur.cmd.sink] \o SinkEvents(SubSeq(cur.out, 1, pos))
           /\ \A k \in 1..(n - 1) :
                 \/ /\ no.side = "Bid"
                    /\ cur.fills[k].price < cur.fills[k + 1].price
                 \/ /\ no.side = "Ask"
                    /\ cur.fills[k].price > cur.fills[k + 1].price
                 \/ /\ cur.fills[k].price = cur.fills[k + 1].price
                    /\ cur.fills[k].maker.arr < cur.fills[k + 1].maker.arr
           /\ \A i \in 1..Len(cur.out) :
                 cur.out[i].ev.type = "Trade" =>
                     IF cur.out[i].to = "sink"
                     THEN i < Len(cur.out) /\ cur.out[i + 1] = ToMd(cur.out[i].ev)
                     ELSE i > 1 /\ cur.out[i - 1] = ToSink(cur.out[i].ev)

\* C19 witness: an order traded at two prices and both Trades are on its
\* submitter's sink.
C19_Witness ==
    /\ cur.cmd.kind = "Order"
    /\ Len(cur.fills) >= 2
    /\ cur.fills[1].price # cur.fills[2].price
    /\ Len(TradesOf(sinks[cur.cmd.sink])) >= 2

\* The BookDelta of the level of fill f as the fill left it.
DeltaOfFill(f) == BookDelta(f.side, f.price, SumQty(f.level_after))

\* C20: the broadcast sends of a NewOrder the engine has handled are Trade1,
\* BookDelta1, Trade2, BookDelta2, ...: each fill's Trade is followed by a
\* BookDelta of the maker's level with the quantity the fill left in it; a
\* BookDelta of the order's own level comes last when the residual rests.
C20_MdAlternates ==
    AfterCommand /\ cur.cmd.kind = "Order" =>
        LET no == cur.cmd.no
            mdev == MdEvents(cur.out)
            n == Len(cur.fills)
        IN /\ Len(mdev) \in {2 * n, 2 * n + 1}
           /\ \A k \in 1..n :
                 /\ mdev[2 * k - 1] = TradeOfFill(cur.fills[k], no)
                 /\ mdev[2 * k] = DeltaOfFill(cur.fills[k])
           /\ Len(mdev) = 2 * n + 1 =>
                 /\ mdev[2 * n + 1].type = "BookDelta"
                 /\ mdev[2 * n + 1].side = no.side
                 /\ mdev[2 * n + 1].price = no.price

\* The quantity that the fills before the k-th took at price px.
RECURSIVE TakenBefore(_, _, _)
TakenBefore(fills, k, px) ==
    IF k <= 1 THEN 0
    ELSE TakenBefore(fills, k - 1, px)
            + (IF fills[k - 1].price = px THEN fills[k - 1].qty ELSE 0)

\* The levels of the side opposite to the order `no`, in the book `b`.
OppositeOf(no, b) == IF no.side = "Bid" THEN b.asks ELSE b.bids

\* Price a is better than price b for a taker on side `side`: lower for a
\* Bid, higher for an Ask.
Better(side, a, b) == IF side = "Bid" THEN a < b ELSE a > b

\* C21: price priority of a NewOrder.  Every Trade is at a price of the
\* opposite side that satisfies the taker's limit, and when it is made every
\* better level of the opposite side has been taken whole by the Trades before
\* it; the Trade prices never get better from one Trade to the next; and when
\* matching has stopped the taker has nothing left, or the opposite side is
\* empty, or its best price does not satisfy the limit.
C21_PricePriority ==
    cur.cmd.kind = "Order" =>
        LET no == cur.cmd.no
            opp == OppositeOf(no, cur.pre)
            after == OppositeOf(no, Book)
            trades == TradesOf(SinkEvents(cur.out))
            n == Len(cur.fills)
        IN /\ Len(trades) = n
           /\ \A k \in 1..n :
                /\ trades[k].price = cur.fills[k].price
                /\ trades[k].price \in DOMAIN opp
                /\ ~Better(no.side, no.price, trades[k].price)
                /\ \A px \in DOMAIN opp :
                      Better(no.side, px, trades[k].price) =>
                          TakenBefore(cur.fills, k, px) = SumQty(opp[px])
                /\ TakenBefore(cur.fills, k, trades[k].price) < SumQty(opp[trades[k].price])
           /\ \A k \in 1..(n - 1) : ~Better(no.side, trades[k + 1].price, trades[k].price)
           /\ \/ FilledQty(cur.fills) = no.qty
              \/ DOMAIN after = {}
              \/ \A px \in DOMAIN after : Better(no.side, no.price, px)

\* C21 witness: an order traded at the best price of the opposite side, took
\* that level whole, and went on to trade at the next price.
C21_Witness ==
    /\ cur.cmd.kind = "Order"
    /\ Len(cur.fills) >= 2
    /\ Better(cur.cmd.no.side, cur.fills[1].price, cur.fills[2].price)
    /\ pos >= 4

\* C22: a NewOrder with limit price 0 makes no Trade as taker: none of its
\* sends, to the submitter or to the broadcast sink, is a Trade.
C22_ZeroNeverCrosses ==
    cur.cmd.kind = "Order" /\ cur.cmd.no.price = 0 =>
        \A i \in 1..Len(cur.out) : cur.out[i].ev.type # "Trade"

\* The quantity the resting order o was submitted with: the engine received
\* it as its o.arr-th command, and commands are received in the order sent.
SubmittedQty(o) == chlog[o.arr].no.qty

\* C23: the book the engine keeps between commands.  No level of bids or asks
\* is empty, every order in a level has the level's side and price, and every
\* resting order has a quantity that is positive and at most the quantity it
\* was submitted with.
C23_LevelsWellFormed ==
    /\ \A px \in DOMAIN bids : bids[px] # <<>>
    /\ \A px \in DOMAIN asks : asks[px] # <<>>
    /\ \A sl \in AllSlots :
          LET o == OrderIn(sl)
          IN /\ o.side = sl[1]
             /\ o.price = sl[2]
             /\ o.qty > 0
             /\ o.arr \in 1..Len(chlog)
             /\ chlog[o.arr].kind = "Order"
             /\ chlog[o.arr].no.id = o.id
             /\ o.qty <= SubmittedQty(o)

\* C23 witness: an order took the only order of a level, whose level is gone,
\* and rests itself with less than it was submitted with.
C23_Witness ==
    /\ AfterCommand
    /\ cur.cmd.kind = "Order"
    /\ cur.fills # <<>>
    /\ cur.fills[1].price \notin DOMAIN OppositeOf(cur.cmd.no, Book)
    /\ \E sl \in AllSlots :
          /\ OrderIn(sl).arr = cur.cmd.no.arr
          /\ OrderIn(sl).qty < SubmittedQty(OrderIn(sl))

\* The levels of the order `no`'s own side, in the book `b`.
OwnSideOf(no, b) == IF no.side = "Bid" THEN b.bids ELSE b.asks

\* C24: quantity conservation of a GTC NewOrder.  With residual = submitted
\* quantity minus the quantities of the order's Trades: if the residual is
\* positive, the order's own-side level at its limit price is what it was
\* (nothing, if there was no such level) with one order behind it that has the
\* submitted id, client id, side and price and the residual as quantity, the
\* other levels of that side are as before, lookup maps the id to that side
\* and price and is otherwise as before, and the last send before the Ack is a
\* BookDelta to the broadcast sink with the level's aggregate quantity; if the
\* residual is zero, the own side and lookup are as before and no BookDelta
\* for the own side is sent.
C24_ResidualRests ==
    cur.cmd.kind = "Order" /\ cur.cmd.no.tif = "Gtc" =>
        LET no == cur.cmd.no
            residual == no.qty - FilledQty(cur.fills)
            trades == TradesOf(SinkEvents(cur.out))
            own == OwnSideOf(no, Book)
            was == OwnSideOf(no, cur.pre)
            n == Len(cur.out)
        IN /\ Len(trades) = Len(cur.fills)
           /\ \A k \in 1..Len(trades) : trades[k].qty = cur.fills[k].qty
           /\ residual >= 0
           /\ IF residual > 0
              THEN /\ DOMAIN own = DOMAIN was \cup {no.price}
                   /\ \A px \in DOMAIN was : px # no.price => own[px] = was[px]
                   /\ own[no.price] =
                         LevelOf(cur.pre, no.side, no.price)
                            \o <<[id |-> no.id, cl_id |-> no.cl_id, side |-> no.side,
                                  price |-> no.price, qty |-> residual, tif |-> no.tif,
                                  arr |-> no.arr]>>
                   /\ DOMAIN lookup = DOMAIN cur.pre.lookup \cup {no.id}
                   /\ lookup[no.id] = <<no.side, no.price>>
                   /\ \A id \in DOMAIN cur.pre.lookup :
                         id # no.id => lookup[id] = cur.pre.lookup[id]
                   /\ n >= 2
                   /\ cur.out[n - 1] =
                         ToMd(BookDelta(no.side, no.price, SumQty(own[no.price])))
                   /\ cur.out[n] = ToSink(Ack(no.id, "ok"))
              ELSE /\ own = was
                   /\ lookup = cur.pre.lookup
                   /\ \A i \in 1..n :
                         cur.out[i].ev.type = "BookDelta" => cur.out[i].ev.side # no.side

\* C24 witness: a GTC order was filled in part and what is left of it rests,
\* all its sends made.
C24_Witness ==
    /\ AfterCommand
    /\ cur.cmd.kind = "Order"
    /\ cur.cmd.no.tif = "Gtc"
    /\ Len(cur.fills) = 1
    /\ FilledQty(cur.fills) < cur.cmd.no.qty
    /\ cur.cmd.no.id \in DOMAIN lookup
    /\ md[Len(md)].type = "BookDelta"
    /\ md[Len(md)].side = cur.cmd.no.side

\* The engine takes a command whose submitter's sink has lost its receiver.
RecvFromDropped ==
    /\ nrecv' = nrecv + 1
    /\ cmdq # <<>>
    /\ ~sinkOpen[Head(cmdq).sink]

\* C25: a command of a connection that is gone.  When the engine takes from
\* the command channel a command whose sink has lost its receiver, the book
\* becomes what the command makes of it whatever the sink's state, no sink
\* changes, the broadcast channel gets the command's Trades and BookDeltas in
\* order, as many as it would with the sink alive and empty or more, and the
\* engine is back at the receive unless it waits on the broadcast channel.
C25_DropHarmless ==
    [][RecvFromDropped =>
        LET cmd == cur'.cmd
            h == Handle(cmd, Book)
            alive == Deliver(h.out, 0, cmd.sink, [sinks EXCEPT ![cmd.sink] = <<>>], md,
                             [sinkOpen EXCEPT ![cmd.sink] = TRUE])
        IN /\ cmd = Stamp(Head(cmdq), nrecv')
           /\ bids' = h.bids /\ asks' = h.asks /\ lookup' = h.lookup
           /\ cur'.out = h.out
           /\ sinks' = sinks
           /\ md' = md \o MdEvents(SubSeq(h.out, 1, pos'))
           /\ pos' >= alive.pos
           /\ alive.pos = Len(h.out) => md' = alive.md
           /\ pos' = Len(h.out) \/ h.out[pos' + 1].to = "md"]_vars

\* C25 witness: a connection had a command answered, sent an order and went
\* away; the engine took the order with the drop already made (the sink it
\* found held nothing), traded it, and is back at the receive where a command
\* of another connection waits.
C25_Witness ==
    /\ AfterCommand
    /\ nrecv >= 2
    /\ cur.cmd.kind = "Order"
    /\ ~sinkOpen[cur.cmd.sink]
    /\ chlog[1].sink = cur.cmd.sink
    /\ cur.presinks[cur.cmd.sink] = <<>>
    /\ cur.fills # <<>>
    /\ Len(md) >= 2
    /\ md[Len(md) - 1].type = "Trade"
    /\ cmdq # <<>>
    /\ Head(cmdq).sink # cur.cmd.sink


====
